---- MODULE Spec2Model ----
(***************************************************************************)
(* Due-date resolution engine of the compliance assistant                  *)
(* (utils/due_date_manager.py, utils/compliance_mappings.py).              *)
(*                                                                         *)
(* One call of DueDateManager.calculate_due_date is a run of the machine   *)
(* idle -> s1 -> s2 -> s3 -> s4 -> s5 -> done | raised.  Text (titles,     *)
(* URLs, validity labels) is kept as strings and searched character by     *)
(* character, dates are proleptic Gregorian ordinals as in Python's        *)
(* datetime (the time of day is carried through unchanged by every         *)
(* strategy and is left out), confidences are in thousandths.              *)
(***************************************************************************)
EXTENDS Integers, Sequences, FiniteSets, TLC

VARIABLES
    universe,          \* which family of inputs the callers of this run supply
    llm,               \* LLMDueDateExtractor.llm is set (TRUE) or None (FALSE)
    pc,                \* position inside calculate_due_date
    item,              \* the item dict of the current call
    search_results,    \* the search_results argument of the current call
    application_date,  \* local application_date (ordinal)
    result,            \* the DueDateResult returned, NoResult before return
    attempts,          \* strategies attempted so far in this call, in order
    outcomes,          \* outcome of each attempted strategy, same order
    extract_calls,     \* URLs handed to llm_extractor.extract_validity_period
    extracted_data,    \* local extracted_data of _try_llm_extraction
    llm_consensus,     \* local consensus of _try_llm_extraction
    history,           \* the earlier calls on this manager: arguments and outcome
    mapping,           \* a direct call of get_iso_due_date / get_india_due_date
    truncation,        \* a call of truncate_text
    main_pc,           \* position inside main
    new_items,         \* the items read_new_items returned
    idx,               \* index of the item the loop of main is at
    processed_count,
    skipped_count,
    error_count,
    master,            \* data/excel/master_compliance.xlsx
    dispositions       \* what the loop of main did with each item so far

\* state of calculate_due_date and its manager
manager_vars == <<universe, llm, pc, item, search_results, application_date, result,
                  attempts, outcomes, extract_calls, extracted_data, llm_consensus,
                  history>>

\* state of the functions called without a manager
library_vars == <<mapping, truncation>>

\* state of the batch workflow of main
batch_vars == <<main_pc, new_items, idx, processed_count, skipped_count, error_count,
                master, dispositions>>

vars == <<manager_vars, library_vars, batch_vars>>

-----------------------------------------------------------------------------
(* Bounds of the model                                                     *)

\* most rows in new_submissions.xlsx
MaxItems == 2

\* most items saved to the master list before main runs
MaxSaved == 2

\* largest max_length passed to truncate_text
MaxLength == 8

\* longest search_results list a caller supplies
MaxDocs == 3

\* most calls of calculate_due_date made on one manager
MaxCalls == 3

-----------------------------------------------------------------------------
(* Text                                                                    *)

Digits == {"0", "1", "2", "3", "4", "5", "6", "7", "8", "9"}

Spaces == {" "}

UpperAlphabet == "ABCDEFGHIJKLMNOPQRSTUVWXYZ"

LowerAlphabet == "abcdefghijklmnopqrstuvwxyz"

CharAt(s, i) == SubSeq(s, i, i)

\* sub in s
Contains(s, sub) ==
    \E i \in 1..(Len(s) - Len(sub) + 1) : SubSeq(s, i, i + Len(sub) - 1) = sub

\* c.lower() for the letters A-Z
LowerMap ==
    [c \in {CharAt(UpperAlphabet, i) : i \in 1..26} |->
        CharAt(LowerAlphabet, CHOOSE i \in 1..26 : CharAt(UpperAlphabet, i) = c)]

LowerChar(c) == IF c \in DOMAIN LowerMap THEN LowerMap[c] ELSE c

RECURSIVE LowerFrom(_, _)
LowerFrom(s, i) ==
    IF i > Len(s) THEN "" ELSE LowerChar(CharAt(s, i)) \o LowerFrom(s, i + 1)

\* str.lower()
Lower(s) == LowerFrom(s, 1)

RECURSIVE ReplaceFrom(_, _)
ReplaceFrom(s, i) ==
    IF i > Len(s) THEN ""
    ELSE (IF CharAt(s, i) = " " THEN "_" ELSE CharAt(s, i)) \o ReplaceFrom(s, i + 1)

\* str.replace(" ", "_")
ReplaceSpaces(s) == ReplaceFrom(s, 1)

\* last index of the maximal run of characters of set cs that starts at i
\* (i - 1 when the run is empty)
RECURSIVE RunEnd(_, _, _)
RunEnd(s, i, cs) ==
    IF i <= Len(s) /\ CharAt(s, i) \in cs THEN RunEnd(s, i + 1, cs) ELSE i - 1

DigitValue(c) == CHOOSE n \in 0..9 : CharAt("0123456789", n + 1) = c

RECURSIVE IntOf(_)
\* int(digits)
IntOf(ds) ==
    IF Len(ds) = 0 THEN 0
    ELSE 10 * IntOf(SubSeq(ds, 1, Len(ds) - 1)) + DigitValue(CharAt(ds, Len(ds)))

\* re.search(r'(\d+)', s): the first maximal digit run, "" when there is none
FirstInteger(s) ==
    IF \E i \in 1..Len(s) : CharAt(s, i) \in Digits
    THEN LET i == CHOOSE k \in 1..Len(s) :
                     /\ CharAt(s, k) \in Digits
                     /\ \A j \in 1..(k - 1) : CharAt(s, j) \notin Digits
         IN  SubSeq(s, i, RunEnd(s, i, Digits))
    ELSE ""

\* positions where r'ISO\s*(\d+)' matches
IsoMatchAt(s, i) ==
    /\ i + 2 <= Len(s)
    /\ SubSeq(s, i, i + 2) = "ISO"
    /\ LET d == RunEnd(s, i + 3, Spaces) + 1
       IN  d <= Len(s) /\ CharAt(s, d) \in Digits

\* re.search(r'ISO\s*(\d+)', s).group(1), "" when there is no match
IsoNumber(s) ==
    IF \E i \in 1..Len(s) : IsoMatchAt(s, i)
    THEN LET i == CHOOSE k \in 1..Len(s) :
                     IsoMatchAt(s, k) /\ \A j \in 1..(k - 1) : ~IsoMatchAt(s, j)
             d == RunEnd(s, i + 3, Spaces) + 1
         IN  SubSeq(s, d, RunEnd(s, d, Digits))
    ELSE ""

-----------------------------------------------------------------------------
(* Calendar: datetime ordinals                                             *)

IsLeap(y) == y % 4 = 0 /\ (y % 100 # 0 \/ y % 400 = 0)

DaysInMonth(y, m) ==
    IF m = 2 THEN (IF IsLeap(y) THEN 29 ELSE 28)
    ELSE IF m \in {4, 6, 9, 11} THEN 30 ELSE 31

DaysBeforeYear(y) ==
    (y - 1) * 365 + ((y - 1) \div 4) - ((y - 1) \div 100) + ((y - 1) \div 400)

RECURSIVE DaysBeforeMonth(_, _)
DaysBeforeMonth(y, m) ==
    IF m = 1 THEN 0 ELSE DaysBeforeMonth(y, m - 1) + DaysInMonth(y, m - 1)

\* datetime(y, m, d).toordinal()
Ordinal(y, m, d) == DaysBeforeYear(y) + DaysBeforeMonth(y, m) + d

ValidYMD(y, m, d) ==
    /\ y \in 1..9999
    /\ m \in 1..12
    /\ d \in 1..DaysInMonth(y, m)

\* datetime.max.toordinal(): a later date raises OverflowError
MaxOrdinal == 3652059

\* start - timedelta(days=n): the offset applied with the wrong sign
AddDaysBackwards(start, n) ==
    IF start - n > MaxOrdinal \/ start - n < 1
    THEN [ok |-> FALSE, date |-> 0]
    ELSE [ok |-> TRUE, date |-> start - n]

\* start + timedelta(days=n)
AddDays(start, n) ==
    IF start + n > MaxOrdinal \/ start + n < 1
    THEN [ok |-> FALSE, date |-> 0]
    ELSE [ok |-> TRUE, date |-> start + n]

-----------------------------------------------------------------------------
(* Tables                                                                  *)

ISO_LEAD_TIMES ==
    [k \in {"ISO 9001 - Quality Management",
            "ISO 14001 - Environmental Management",
            "ISO 27001 - Information Security Management",
            "ISO 45001 - Occupational Health & Safety",
            "ISO 22000 - Food Safety Management",
            "ISO 50001 - Energy Management",
            "ISO 13485 - Medical Devices Quality Management",
            "ISO 20000 - IT Service Management"} |->
        IF k \in {"ISO 27001 - Information Security Management",
                  "ISO 50001 - Energy Management",
                  "ISO 13485 - Medical Devices Quality Management",
                  "ISO 20000 - IT Service Management"}
        THEN 120 ELSE 90]

ISO_ACTIVITY_ADJUSTMENTS ==
    [k \in {"New Certification", "Recertification", "Surveillance Audit",
            "Gap Analysis", "Internal Audit Preparation", "Document Review",
            "Corrective Action Implementation"} |->
        CASE k = "New Certification" -> 30
          [] k = "Recertification" -> 0
          [] k = "Surveillance Audit" -> 0 - 30
          [] k = "Gap Analysis" -> 0 - 60
          [] k = "Internal Audit Preparation" -> 0 - 45
          [] k = "Document Review" -> 0 - 75
          [] k = "Corrective Action Implementation" -> 0 - 30]

INDIA_COMPLIANCE_LEAD_TIMES ==
    [k \in {"Bureau of Indian Standards (BIS)",
            "Central Pollution Control Board (CPCB)",
            "Environmental Clearance",
            "Factory Act Compliance",
            "Labour Law Compliance",
            "GST Compliance",
            "Import/Export Regulations",
            "Industry-Specific License",
            "State-Level Compliance"} |->
        CASE k = "Bureau of Indian Standards (BIS)" -> 180
          [] k = "Central Pollution Control Board (CPCB)" -> 120
          [] k = "Environmental Clearance" -> 270
          [] k = "Factory Act Compliance" -> 60
          [] k = "Labour Law Compliance" -> 60
          [] k = "GST Compliance" -> 30
          [] k = "Import/Export Regulations" -> 90
          [] k = "Industry-Specific License" -> 120
          [] k = "State-Level Compliance" -> 90]

DEFAULT_LEAD_TIME == 30

\* a validity label that is text
Str(s) == [isStr |-> TRUE, val |-> s]

\* a validity label that is not text (a JSON number); val is its repr
Num(s) == [isStr |-> FALSE, val |-> s]

\* the table with a lead time one day short of three years
RegulatoryDbShortLead ==
    [k \in {"ISO_9001"} |->
        [lead_time_days |-> 1094, validity_period |-> Str("3 Years"), confidence |-> 990]]

\* RegulatoryDatabase.db
RegulatoryDb ==
    [k \in {"ISO_9001"} |->
        [lead_time_days |-> 1095, validity_period |-> Str("3 Years"), confidence |-> 990]]

\* the thresholds with an extraction tier that a two-thirds majority reaches
ThresholdsMajorityExtraction ==
    [m \in {"REGULATORY_DATABASE", "LLM_EXTRACTION", "HISTORICAL_ANALYSIS",
            "STATIC_MAPPING", "CONSERVATIVE_DEFAULT"} |->
        CASE m = "REGULATORY_DATABASE" -> 950
          [] m = "LLM_EXTRACTION" -> 600
          [] m = "HISTORICAL_ANALYSIS" -> 700
          [] m = "STATIC_MAPPING" -> 600
          [] m = "CONSERVATIVE_DEFAULT" -> 400]

\* the thresholds with the extraction tier held to the database's 0.95
ThresholdsExtractionAsDatabase ==
    [m \in {"REGULATORY_DATABASE", "LLM_EXTRACTION", "HISTORICAL_ANALYSIS",
            "STATIC_MAPPING", "CONSERVATIVE_DEFAULT"} |->
        CASE m = "REGULATORY_DATABASE" -> 950
          [] m = "LLM_EXTRACTION" -> 950
          [] m = "HISTORICAL_ANALYSIS" -> 700
          [] m = "STATIC_MAPPING" -> 600
          [] m = "CONSERVATIVE_DEFAULT" -> 400]

\* DueDateManager.CONFIDENCE_THRESHOLDS, in thousandths
CONFIDENCE_THRESHOLDS ==
    [m \in {"REGULATORY_DATABASE", "LLM_EXTRACTION", "HISTORICAL_ANALYSIS",
            "STATIC_MAPPING", "CONSERVATIVE_DEFAULT"} |->
        CASE m = "REGULATORY_DATABASE" -> 950
          [] m = "LLM_EXTRACTION" -> 800
          [] m = "HISTORICAL_ANALYSIS" -> 700
          [] m = "STATIC_MAPPING" -> 600
          [] m = "CONSERVATIVE_DEFAULT" -> 400]

\* official allow-list of _filter_official_sources
OfficialDomains == <<"iso.org", "bis.gov.in", "bsigroup.com", "tuv.com", "gov.in">>

\* official_sources[:3]
ExtractionCap == 3

-----------------------------------------------------------------------------
(* Results                                                                 *)

NoResult == [due_date |-> 0, method |-> "NONE", confidence |-> 0,
             validity_period |-> Str(""), source_urls |-> <<>>]

DueDateResult(dd, m, c, vp, urls) ==
    [due_date |-> dd, method |-> m, confidence |-> c,
     validity_period |-> vp, source_urls |-> urls]

\* what one strategy attempt hands back: a result, None, or an exception
Ok(r) == [status |-> "ok", res |-> r]

None == [status |-> "none", res |-> NoResult]

Raise == [status |-> "raise", res |-> NoResult]

-----------------------------------------------------------------------------
(* DueDateManager: helpers                                                 *)

\* _parse_application_date; today is the value datetime.now() would give
ParseApplicationDate(date_input, today) ==
    CASE date_input.kind = "datetime" -> Ordinal(date_input.y, date_input.m, date_input.d)
      [] date_input.kind = "date" -> Ordinal(date_input.y, date_input.m, date_input.d)
      [] date_input.kind = "str" ->
            IF ValidYMD(date_input.y, date_input.m, date_input.d)
            THEN Ordinal(date_input.y, date_input.m, date_input.d)
            ELSE today
      [] OTHER -> today

\* _parse_certification_info(item)['standard']: re.search raises TypeError
\* on a Title that is not text; standard "" stands for None
ParseCertificationInfo(it) ==
    IF it.title.kind = "nonstr" THEN [ok |-> FALSE, standard |-> ""]
    ELSE LET title == IF it.title.kind = "missing" THEN "" ELSE it.title.val
             n == IsoNumber(title)
         IN  [ok |-> TRUE, standard |-> IF n = "" THEN "" ELSE "ISO " \o n]

\* lookup without the key normalisation
LookupRawKey(standard) ==
    IF standard = "" THEN [found |-> FALSE, key |-> ""]
    ELSE [found |-> standard \in DOMAIN RegulatoryDb, key |-> standard]

\* RegulatoryDatabase.lookup
Lookup(standard) ==
    IF standard = "" THEN [found |-> FALSE, key |-> ""]
    ELSE LET key == ReplaceSpaces(standard)
         IN  [found |-> key \in DOMAIN RegulatoryDb, key |-> key]

\* an analyzer that is confident without any history
AnalyzeProcessingTimesConfident(items) == [confidence |-> 750, median_processing_days |-> 365]

\* HistoricalAnalyzer.analyze_processing_times
AnalyzeProcessingTimes(items) == [confidence |-> 0, median_processing_days |-> 365]

\* any(o in url.lower() for o in official)
OfficialUrl(url) ==
    LET u == Lower(url)
    IN  \E k \in 1..Len(OfficialDomains) : Contains(u, OfficialDomains[k])

\* URLs of the documents a search returns
SearchUrls ==
    {"https://www.ISO.org/standard/62085.html",
     "https://www.bis.gov.in/certification",
     "https://www.bsigroup.com/iso-9001",
     "https://www.tuv.com/faq",
     "https://www.iso.org/faq",
     "https://cpcb.gov.in/consent",
     "https://blog.example.com/iso.org-explained",
     "https://example.com/news"}

\* OfficialUrl of the search URLs, evaluated once
OfficialVerdicts == [u \in SearchUrls |-> OfficialUrl(u)]

\* the test of _filter_official_sources on one document
IsOfficial(doc) ==
    IF doc.url \in SearchUrls THEN OfficialVerdicts[doc.url] ELSE OfficialUrl(doc.url)

\* _filter_official_sources
FilterOfficialSources(results) == SelectSeq(results, IsOfficial)

\* LLMDueDateExtractor.extract_validity_period on one document: the claim
\* the model's reply parses to, None without a client, a reply or valid JSON
ExtractValidityPeriod(doc, hasLlm) ==
    IF hasLlm /\ doc.answer.claim
    THEN [claim |-> TRUE, validity_period |-> doc.answer.vp, source_url |-> doc.url]
    ELSE [claim |-> FALSE, validity_period |-> Str(""), source_url |-> doc.url]

\* the loop of _try_llm_extraction over official_sources[:3]; source['content']
\* raises KeyError on a document without content and ends the loop
RECURSIVE ExtractLoop(_, _, _, _, _)
ExtractLoop(sources, i, hasLlm, data, called) ==
    IF i > Len(sources) \/ i > ExtractionCap
    THEN [raised |-> FALSE, data |-> data, called |-> called]
    ELSE IF ~sources[i].hasContent
    THEN [raised |-> TRUE, data |-> data, called |-> called]
    ELSE LET ext == ExtractValidityPeriod(sources[i], hasLlm)
         IN  ExtractLoop(sources, i + 1, hasLlm,
                         IF ext.claim THEN Append(data, ext) ELSE data,
                         Append(called, sources[i].url))

\* Counter(periods)[p]
CountOf(periods, p) == Cardinality({i \in 1..Len(periods) : periods[i] = p})

\* _find_consensus that does not divide the winner's count by the total
FindConsensusUnscaled(data) ==
    LET periods == [i \in 1..Len(data) |-> data[i].validity_period]
        best == CHOOSE i \in 1..Len(periods) :
                    /\ \A j \in 1..Len(periods) :
                           CountOf(periods, periods[j]) <= CountOf(periods, periods[i])
                    /\ \A j \in 1..(i - 1) :
                           CountOf(periods, periods[j]) < CountOf(periods, periods[i])
    IN  [validity_period |-> periods[best],
         confidence |-> CountOf(periods, periods[best]) * 900]

\* _find_consensus that lets the last of the equally frequent labels win
FindConsensusLastWins(data) ==
    LET periods == [i \in 1..Len(data) |-> data[i].validity_period]
        best == CHOOSE i \in 1..Len(periods) :
                    /\ \A j \in 1..Len(periods) :
                           CountOf(periods, periods[j]) <= CountOf(periods, periods[i])
                    /\ \A j \in (i + 1)..Len(periods) :
                           CountOf(periods, periods[j]) < CountOf(periods, periods[i])
    IN  [validity_period |-> periods[best],
         confidence |-> (CountOf(periods, periods[best]) * 900) \div Len(data)]

\* _find_consensus on a non-empty list: Counter.most_common(1)[0] is the
\* first label, in order of first appearance, with the largest count
FindConsensus(data) ==
    LET periods == [i \in 1..Len(data) |-> data[i].validity_period]
        best == CHOOSE i \in 1..Len(periods) :
                    /\ \A j \in 1..Len(periods) :
                           CountOf(periods, periods[j]) <= CountOf(periods, periods[i])
                    /\ \A j \in 1..(i - 1) :
                           CountOf(periods, periods[j]) < CountOf(periods, periods[i])
    IN  [validity_period |-> periods[best],
         confidence |-> (CountOf(periods, periods[best]) * 900) \div Len(data)]

\* the conversion with a case-sensitive test for "year"
PeriodDaysCaseSensitive(period) ==
    LET num == FirstInteger(period)
        val == IF num = "" THEN 1 ELSE IntOf(num)
    IN  IF Contains(period, "year") THEN val * 365 ELSE val * 30

\* the day offset of _calculate_from_validity_period
PeriodDays(period) ==
    LET num == FirstInteger(period)
        val == IF num = "" THEN 1 ELSE IntOf(num)
    IN  IF Contains(Lower(period), "year") THEN val * 365 ELSE val * 30

\* _calculate_from_validity_period: re.search raises TypeError on a label
\* that is not text, the addition raises OverflowError past datetime.max
CalculateFromValidityPeriod(start, period) ==
    IF ~period.isStr THEN [ok |-> FALSE, date |-> 0]
    ELSE AddDays(start, PeriodDays(period.val))

\* get_iso_due_date that applies no activity-type adjustment
GetIsoDueDateNoAdjustment(standard_name, activity_type, start_date) ==
    LET base_days == IF standard_name \in DOMAIN ISO_LEAD_TIMES
                     THEN ISO_LEAD_TIMES[standard_name] ELSE DEFAULT_LEAD_TIME
    IN  AddDays(start_date, base_days)

\* get_iso_due_date
GetIsoDueDate(standard_name, activity_type, start_date) ==
    LET base_days == IF standard_name \in DOMAIN ISO_LEAD_TIMES
                     THEN ISO_LEAD_TIMES[standard_name] ELSE DEFAULT_LEAD_TIME
        adj_days == IF activity_type \in DOMAIN ISO_ACTIVITY_ADJUSTMENTS
                    THEN ISO_ACTIVITY_ADJUSTMENTS[activity_type] ELSE 0
    IN  AddDays(start_date, base_days + adj_days)

\* get_india_due_date that never consults the table
GetIndiaDueDateDefaultOnly(category_name, start_date) ==
    AddDays(start_date, DEFAULT_LEAD_TIME)

\* get_india_due_date
GetIndiaDueDate(category_name, start_date) ==
    LET days == IF category_name \in DOMAIN INDIA_COMPLIANCE_LEAD_TIMES
                THEN INDIA_COMPLIANCE_LEAD_TIMES[category_name] ELSE DEFAULT_LEAD_TIME
    IN  AddDays(start_date, days)

-----------------------------------------------------------------------------
(* DueDateManager: strategies                                              *)

\* _try_regulatory_database
TryRegulatoryDatabase(it, app) ==
    LET cert_info == ParseCertificationInfo(it)
    IN  IF ~cert_info.ok THEN Raise
        ELSE LET db_result == Lookup(cert_info.standard)
             IN  IF ~db_result.found THEN None
                 ELSE LET entry == RegulatoryDb[db_result.key]
                          due == AddDays(app, entry.lead_time_days)
                      IN  IF ~due.ok THEN Raise
                          ELSE Ok(DueDateResult(due.date, "REGULATORY_DATABASE",
                                                entry.confidence,
                                                entry.validity_period, <<>>))

\* _try_llm_extraction; search_results is a non-empty list here
TryLlmExtraction(it, app, results, hasLlm) ==
    LET official_sources == FilterOfficialSources(results)
    IN  IF Len(official_sources) = 0 THEN None
        ELSE LET loop == ExtractLoop(official_sources, 1, hasLlm, <<>>, <<>>)
             IN  IF loop.raised THEN Raise
                 ELSE IF Len(loop.data) = 0 THEN None
                 ELSE LET consensus == FindConsensus(loop.data)
                          due == CalculateFromValidityPeriod(app, consensus.validity_period)
                      IN  IF ~due.ok THEN Raise
                          ELSE Ok(DueDateResult(
                                   due.date, "LLM_EXTRACTION", consensus.confidence,
                                   consensus.validity_period,
                                   [i \in 1..Len(loop.data) |-> loop.data[i].source_url]))

\* the extractor invocations _try_llm_extraction makes
LlmExtractionCalls(results, hasLlm) ==
    LET official_sources == FilterOfficialSources(results)
    IN  IF Len(official_sources) = 0 THEN <<>>
        ELSE ExtractLoop(official_sources, 1, hasLlm, <<>>, <<>>).called

\* extracted_data as _try_llm_extraction leaves it
LlmExtractedData(results, hasLlm) ==
    LET official_sources == FilterOfficialSources(results)
    IN  IF Len(official_sources) = 0 THEN <<>>
        ELSE ExtractLoop(official_sources, 1, hasLlm, <<>>, <<>>).data

\* no value: _find_consensus was not reached or returned None
NoConsensus == [present |-> FALSE, validity_period |-> Str(""), confidence |-> 0]

\* the value _find_consensus returns inside _try_llm_extraction
LlmConsensus(results, hasLlm) ==
    LET official_sources == FilterOfficialSources(results)
    IN  IF Len(official_sources) = 0 THEN NoConsensus
        ELSE LET loop == ExtractLoop(official_sources, 1, hasLlm, <<>>, <<>>)
             IN  IF loop.raised \/ Len(loop.data) = 0 THEN NoConsensus
                 ELSE LET c == FindConsensus(loop.data)
                      IN  [present |-> TRUE, validity_period |-> c.validity_period,
                           confidence |-> c.confidence]

\* _try_historical_analysis
TryHistoricalAnalysis(it, app) ==
    LET analysis == AnalyzeProcessingTimes(<<>>)
    IN  IF analysis.confidence < 500 THEN None
        ELSE LET due == AddDays(app, analysis.median_processing_days)
             IN  IF ~due.ok THEN Raise
                 ELSE Ok(DueDateResult(due.date, "HISTORICAL_ANALYSIS",
                                       analysis.confidence,
                                       Str("Based on past items"), <<>>))

\* _try_static_mapping that answers only for the categories of its tables
TryStaticMappingKnownOnly(it, app) ==
    LET cert_info == ParseCertificationInfo(it)
    IN  IF ~cert_info.ok \/ it.title.kind = "missing" THEN Raise
        ELSE LET title == it.title.val
                 dd == IF Contains(title, "ISO")
                       THEN GetIsoDueDate(IF cert_info.standard # ""
                                          THEN cert_info.standard ELSE title,
                                          "New Certification", app)
                       ELSE GetIndiaDueDate(title, app)
             IN  IF ~dd.ok THEN Raise
                 ELSE IF title \notin (DOMAIN ISO_LEAD_TIMES)
                                         \cup (DOMAIN INDIA_COMPLIANCE_LEAD_TIMES)
                 THEN None
                 ELSE Ok(DueDateResult(dd.date, "STATIC_MAPPING", 600,
                                       Str("Default mapping"), <<>>))

\* _try_static_mapping; utils.compliance_mappings is in the package of the
\* manager itself, so the import succeeds
TryStaticMapping(it, app) ==
    LET cert_info == ParseCertificationInfo(it)
    IN  IF ~cert_info.ok \/ it.title.kind = "missing" THEN Raise
        ELSE LET title == it.title.val
                 dd == IF Contains(title, "ISO")
                       THEN GetIsoDueDate(IF cert_info.standard # ""
                                          THEN cert_info.standard ELSE title,
                                          "New Certification", app)
                       ELSE GetIndiaDueDate(title, app)
             IN  IF ~dd.ok THEN Raise
                 ELSE Ok(DueDateResult(dd.date, "STATIC_MAPPING", 600,
                                       Str("Default mapping"), <<>>))

\* _conservative_default
ConservativeDefaultResult(it, app) ==
    LET due == AddDays(app, 365)
    IN  IF ~due.ok THEN Raise
        ELSE Ok(DueDateResult(due.date, "CONSERVATIVE_DEFAULT", 400,
                              Str("1 Year (Default)"), <<>>))

-----------------------------------------------------------------------------
(* Inputs                                                                  *)

StrTitle(s) == [kind |-> "str", val |-> s]

\* a Title that is not text (None, a number)
NonStrTitle == [kind |-> "nonstr", val |-> ""]

\* an item without a 'Title' key
MissingTitle == [kind |-> "missing", val |-> ""]

PipelineTitles ==
    {StrTitle("ISO 9001 - Quality Management"),
     StrTitle("ISO 27001 - Information Security Management"),
     StrTitle("Renewal of ISO9001 certificate"),
     StrTitle("ISO Audit Support"),
     StrTitle("GST Compliance"),
     StrTitle("Fire Safety NOC"),
     NonStrTitle,
     MissingTitle}

IndiaTitles ==
    {StrTitle(k) : k \in DOMAIN INDIA_COMPLIANCE_LEAD_TIMES} \cup {NonStrTitle, MissingTitle}

\* items whose strategy 2 decides, is pre-empted by strategy 1, or is followed
\* by a failing strategy 4
PeriodTitles ==
    {StrTitle("GST Compliance"), StrTitle("ISO 9001 - Quality Management"), NonStrTitle}

\* items of a caller that resolves the same items again
RepeatTitles == {StrTitle("GST Compliance"), NonStrTitle}

Titles(u) ==
    CASE u = "india" -> IndiaTitles
      [] u = "periods" -> PeriodTitles
      [] u = "repeat" -> RepeatTitles
      [] OTHER -> PipelineTitles

DateInput(k, y, m, d) == [kind |-> k, y |-> y, m |-> m, d |-> d]

\* values of item.get('Application Date'): a datetime, a date string, a
\* string that is no calendar date, and an absent key
ApplicationDates ==
    {DateInput("datetime", 2025, 1, 1),
     DateInput("str", 2024, 2, 29),
     DateInput("str", 2025, 2, 30),
     DateInput("none", 0, 0, 0)}

ValidApplicationDate(d) ==
    d.kind \in {"datetime", "date"} \/ (d.kind = "str" /\ ValidYMD(d.y, d.m, d.d))

\* values datetime.now() can take
NowDays == {Ordinal(2026, 11, 3), Ordinal(2026, 11, 4)}

Items(u) ==
    [title : Titles(u),
     appdate : IF u = "repeat"
               THEN {DateInput("datetime", 2025, 1, 1), DateInput("none", 0, 0, 0)}
               ELSE ApplicationDates]

Claim(vp) == [claim |-> TRUE, vp |-> vp]

NoClaim == [claim |-> FALSE, vp |-> Str("")]

Doc(url, hasContent, answer) == [url |-> url, hasContent |-> hasContent, answer |-> answer]

\* documents a search can return: the URL, whether the 'content' key is
\* there, and what the text extractor makes of the content
DocKinds ==
    {Doc("https://www.ISO.org/standard/62085.html", TRUE, Claim(Str("3 Years"))),
     Doc("https://www.bis.gov.in/certification", TRUE, Claim(Str("Annual"))),
     Doc("https://www.bsigroup.com/iso-9001", TRUE, Claim(Str("ISO 9001: 3 years"))),
     Doc("https://www.tuv.com/faq", TRUE, NoClaim),
     Doc("https://www.iso.org/faq", TRUE, Claim(Num("3"))),
     Doc("https://cpcb.gov.in/consent", FALSE, NoClaim),
     Doc("https://blog.example.com/iso.org-explained", TRUE, Claim(Str("6 months"))),
     Doc("https://example.com/news", TRUE, Claim(Str("3 Years")))}

\* values of data['validity_period'] in the extractor's reply
PeriodLabels ==
    {Str("3 Years"), Str("6 months"), Str("Annual"), Str("3 YEARS"), Str("18 Months"),
     Str("valid for 2 years"), Str("1 year 6 months"), Str("12"), Str(""),
     Str("yearly"), Str("9001 years"), Num("3")}

\* one official document per label
PeriodDocs == {Doc("https://www.iso.org/faq", TRUE, Claim(l)) : l \in PeriodLabels}

RECURSIVE SeqsUpTo(_, _)
SeqsUpTo(S, n) ==
    IF n = 0 THEN {<<>>}
    ELSE LET shorter == SeqsUpTo(S, n - 1)
         IN  shorter \cup {Append(q, x) : q \in {r \in shorter : Len(r) = n - 1}, x \in S}

NoSearchResults == [isNone |-> TRUE, docs |-> <<>>]

SearchResults(u) ==
    CASE u = "india" -> {NoSearchResults, [isNone |-> FALSE, docs |-> <<>>]}
      [] u = "repeat" ->
            {NoSearchResults,
             [isNone |-> FALSE,
              docs |-> <<Doc("https://www.iso.org/faq", TRUE, Claim(Str("3 Years")))>>]}
      [] u = "periods" ->
            {NoSearchResults} \cup {[isNone |-> FALSE, docs |-> <<d>>] : d \in PeriodDocs}
      [] OTHER ->
            {NoSearchResults} \cup {[isNone |-> FALSE, docs |-> q] : q \in SeqsUpTo(DocKinds, MaxDocs)}

\* `if search_results:`
Truthy(sr) == ~sr.isNone /\ Len(sr.docs) > 0

-----------------------------------------------------------------------------
(* calculate_due_date                                                      *)

Threshold(m) == CONFIDENCE_THRESHOLDS[m]

\* an orchestrator that compares no confidence with a threshold
OutcomeNoThreshold(out, m) ==
    CASE out.status = "raise" -> "raise"
      [] out.status = "none" -> "none"
      [] OTHER -> "returned"

\* outcome of a strategy attempt as the orchestrator sees it
Outcome(out, m) ==
    CASE out.status = "raise" -> "raise"
      [] out.status = "none" -> "none"
      [] OTHER -> IF out.res.confidence >= Threshold(m) THEN "returned" ELSE "below"

Attempt(n, o) ==
    /\ attempts' = Append(attempts, n)
    /\ outcomes' = Append(outcomes, o)

\* no direct call of a library function is under way
NoMapping ==
    [fn |-> "none", name |-> "", activity_type |-> "", start_date |-> 0,
     state |-> "none", start |-> 0, due |-> 0]

NoTruncation == [text |-> "", max_length |-> 0, state |-> "none", out |-> ""]

LibraryIdle ==
    /\ mapping = NoMapping
    /\ truncation = NoTruncation

\* the master file before it is created
NoMasterFile == [exists |-> FALSE, has_hash |-> FALSE, rows |-> <<>>]

\* main is not running
BatchIdle ==
    /\ main_pc = "none"
    /\ new_items = <<>>
    /\ idx = 0
    /\ processed_count = 0
    /\ skipped_count = 0
    /\ error_count = 0
    /\ master = NoMasterFile
    /\ dispositions = <<>>

TypeOK ==
    /\ universe \in {"pipeline", "india", "periods", "repeat", "library"}
    /\ main_pc \in {"none", "start", "loop", "summary", "completed", "returned"}
    /\ processed_count \in Nat
    /\ skipped_count \in Nat
    /\ error_count \in Nat
    /\ llm \in BOOLEAN
    /\ pc \in {"idle", "s1", "s2", "s3", "s4", "s5", "done", "raised"}

Init ==
    /\ universe = "pipeline"
    /\ llm \in BOOLEAN
    /\ pc = "idle"
    /\ item \in Items(universe)
    /\ search_results \in SearchResults(universe)
    /\ application_date = 0
    /\ result = NoResult
    /\ attempts = <<>>
    /\ outcomes = <<>>
    /\ extract_calls = <<>>
    /\ extracted_data = <<>>
    /\ llm_consensus = NoConsensus
    /\ history = <<>>
    /\ LibraryIdle
    /\ BatchIdle

\* entry of calculate_due_date up to the logger.info of line 74, where
\* item['Title'] raises KeyError on an item without Title
Call ==
    /\ pc = "idle"
    /\ \E today \in NowDays :
          application_date' = ParseApplicationDate(item.appdate, today)
    /\ pc' = IF item.title.kind = "missing" THEN "raised" ELSE "s1"
    /\ UNCHANGED <<library_vars, batch_vars, universe, llm, item, search_results, result,
                   attempts, outcomes, extract_calls, extracted_data, llm_consensus,
          history>>

\* Strategy 1 whose accepted result is not returned
RegulatoryDatabaseStepNoReturn ==
    /\ pc = "s1"
    /\ LET out == TryRegulatoryDatabase(item, application_date)
           o == Outcome(out, "REGULATORY_DATABASE")
       IN  /\ Attempt(1, o)
           /\ result' = IF o = "returned" THEN out.res ELSE result
           /\ pc' = "s2"
    /\ UNCHANGED <<library_vars, batch_vars, universe, llm, item, search_results, application_date,
                   extract_calls, extracted_data, llm_consensus,
                   history>>

\* Strategy 1
RegulatoryDatabaseStep ==
    /\ pc = "s1"
    /\ LET out == TryRegulatoryDatabase(item, application_date)
           o == Outcome(out, "REGULATORY_DATABASE")
       IN  /\ Attempt(1, o)
           /\ result' = IF o = "returned" THEN out.res ELSE result
           /\ pc' = IF o = "returned" THEN "done" ELSE "s2"
    /\ UNCHANGED <<library_vars, batch_vars, universe, llm, item, search_results, application_date,
                   extract_calls, extracted_data, llm_consensus,
                   history>>

\* Strategy 2 without the except clause: a failure reaches the caller
LlmExtractionStepPropagates ==
    /\ pc = "s2"
    /\ IF Truthy(search_results)
       THEN LET out == TryLlmExtraction(item, application_date, search_results.docs, llm)
                o == Outcome(out, "LLM_EXTRACTION")
            IN  /\ Attempt(2, o)
                /\ extract_calls' = LlmExtractionCalls(search_results.docs, llm)
                /\ extracted_data' = LlmExtractedData(search_results.docs, llm)
                /\ llm_consensus' = LlmConsensus(search_results.docs, llm)
                /\ result' = IF o = "returned" THEN out.res ELSE result
                /\ pc' = CASE o = "returned" -> "done"
                            [] o = "raise" -> "raised"
                            [] OTHER -> "s3"
       ELSE /\ pc' = "s3"
            /\ UNCHANGED <<attempts, outcomes, extract_calls, extracted_data,
                           llm_consensus, result>>
    /\ UNCHANGED <<library_vars, batch_vars, universe, llm, item, search_results, application_date, history>>

\* Strategy 2
LlmExtractionStep ==
    /\ pc = "s2"
    /\ IF Truthy(search_results)
       THEN LET out == TryLlmExtraction(item, application_date, search_results.docs, llm)
                o == Outcome(out, "LLM_EXTRACTION")
            IN  /\ Attempt(2, o)
                /\ extract_calls' = LlmExtractionCalls(search_results.docs, llm)
                /\ extracted_data' = LlmExtractedData(search_results.docs, llm)
                /\ llm_consensus' = LlmConsensus(search_results.docs, llm)
                /\ result' = IF o = "returned" THEN out.res ELSE result
                /\ pc' = IF o = "returned" THEN "done" ELSE "s3"
       ELSE /\ pc' = "s3"
            /\ UNCHANGED <<attempts, outcomes, extract_calls, extracted_data,
                           llm_consensus, result>>
    /\ UNCHANGED <<library_vars, batch_vars, universe, llm, item, search_results, application_date, history>>

\* Strategy 3
HistoricalAnalysisStep ==
    /\ pc = "s3"
    /\ LET out == TryHistoricalAnalysis(item, application_date)
           o == Outcome(out, "HISTORICAL_ANALYSIS")
       IN  /\ Attempt(3, o)
           /\ result' = IF o = "returned" THEN out.res ELSE result
           /\ pc' = IF o = "returned" THEN "done" ELSE "s4"
    /\ UNCHANGED <<library_vars, batch_vars, universe, llm, item, search_results, application_date,
                   extract_calls, extracted_data, llm_consensus,
                   history>>

\* Strategy 4 held to a strict threshold like a bar to be exceeded
StaticMappingStepThreshold ==
    /\ pc = "s4"
    /\ LET out == TryStaticMapping(item, application_date)
           o == IF out.status = "ok"
                THEN (IF out.res.confidence > Threshold("STATIC_MAPPING")
                      THEN "returned" ELSE "below")
                ELSE out.status
       IN  /\ Attempt(4, o)
           /\ result' = IF o = "returned" THEN out.res ELSE result
           /\ pc' = IF o = "returned" THEN "done" ELSE "s5"
    /\ UNCHANGED <<library_vars, batch_vars, universe, llm, item, search_results, application_date,
                   extract_calls, extracted_data, llm_consensus,
                   history>>

\* Strategy 4: any result is returned, no threshold is compared
StaticMappingStep ==
    /\ pc = "s4"
    /\ LET out == TryStaticMapping(item, application_date)
           o == IF out.status = "ok" THEN "returned" ELSE out.status
       IN  /\ Attempt(4, o)
           /\ result' = IF o = "returned" THEN out.res ELSE result
           /\ pc' = IF o = "returned" THEN "done" ELSE "s5"
    /\ UNCHANGED <<library_vars, batch_vars, universe, llm, item, search_results, application_date,
                   extract_calls, extracted_data, llm_consensus,
                   history>>

\* Strategy 5: outside every try block
ConservativeDefaultStep ==
    /\ pc = "s5"
    /\ LET out == ConservativeDefaultResult(item, application_date)
           o == IF out.status = "ok" THEN "returned" ELSE out.status
       IN  /\ Attempt(5, o)
           /\ result' = IF o = "returned" THEN out.res ELSE result
           /\ pc' = IF o = "returned" THEN "done" ELSE "raised"
    /\ UNCHANGED <<library_vars, batch_vars, universe, llm, item, search_results, application_date,
                   extract_calls, extracted_data, llm_consensus,
                   history>>

Next ==
    \/ Call
    \/ RegulatoryDatabaseStep
    \/ LlmExtractionStep
    \/ HistoricalAnalysisStep
    \/ StaticMappingStep
    \/ ConservativeDefaultStep

Spec == Init /\ [][Next]_vars

\* callers that pass India regulatory categories and no search results
InitIndia ==
    /\ universe = "india"
    /\ llm \in BOOLEAN
    /\ pc = "idle"
    /\ item \in Items(universe)
    /\ search_results \in SearchResults(universe)
    /\ application_date = 0
    /\ result = NoResult
    /\ attempts = <<>>
    /\ outcomes = <<>>
    /\ extract_calls = <<>>
    /\ extracted_data = <<>>
    /\ llm_consensus = NoConsensus
    /\ history = <<>>
    /\ LibraryIdle
    /\ BatchIdle

SpecIndia == InitIndia /\ [][Next]_vars

\* callers whose search returns one official document, over the labels the
\* extractor can reply
InitPeriods ==
    /\ universe = "periods"
    /\ llm \in BOOLEAN
    /\ pc = "idle"
    /\ item \in Items(universe)
    /\ search_results \in SearchResults(universe)
    /\ application_date = 0
    /\ result = NoResult
    /\ attempts = <<>>
    /\ outcomes = <<>>
    /\ extract_calls = <<>>
    /\ extracted_data = <<>>
    /\ llm_consensus = NoConsensus
    /\ history = <<>>
    /\ LibraryIdle
    /\ BatchIdle

SpecPeriods == InitPeriods /\ [][Next]_vars

\* what a finished call handed to its caller
Returned == [raised |-> pc = "raised", result |-> result]

\* the caller makes one more call on the same manager: the locals of the
\* finished call are gone, the manager keeps no state of it
CallAgain ==
    /\ pc \in {"done", "raised"}
    /\ Len(history) + 1 < MaxCalls
    /\ history' = Append(history, [item |-> item, search_results |-> search_results,
                                   returned |-> Returned])
    /\ item' \in Items(universe)
    /\ search_results' \in SearchResults(universe)
    /\ pc' = "idle"
    /\ application_date' = 0
    /\ result' = NoResult
    /\ attempts' = <<>>
    /\ outcomes' = <<>>
    /\ extract_calls' = <<>>
    /\ extracted_data' = <<>>
    /\ llm_consensus' = NoConsensus
    /\ UNCHANGED <<library_vars, batch_vars, universe, llm>>

\* a caller that makes up to MaxCalls calls on one manager, with a text
\* extractor that answers the same on the same document
InitRepeat ==
    /\ universe = "repeat"
    /\ llm = TRUE
    /\ pc = "idle"
    /\ item \in Items(universe)
    /\ search_results \in SearchResults(universe)
    /\ application_date = 0
    /\ result = NoResult
    /\ attempts = <<>>
    /\ outcomes = <<>>
    /\ extract_calls = <<>>
    /\ extracted_data = <<>>
    /\ llm_consensus = NoConsensus
    /\ history = <<>>
    /\ LibraryIdle
    /\ BatchIdle

NextRepeat == Next \/ CallAgain

SpecRepeat == InitRepeat /\ [][NextRepeat]_vars

-----------------------------------------------------------------------------
(* utils.compliance_mappings called directly                               *)

\* no call of calculate_due_date is under way
ManagerIdle ==
    /\ universe = "library"
    /\ llm = FALSE
    /\ pc = "idle"
    /\ item = [title |-> MissingTitle, appdate |-> DateInput("none", 0, 0, 0)]
    /\ search_results = NoSearchResults
    /\ application_date = 0
    /\ result = NoResult
    /\ attempts = <<>>
    /\ outcomes = <<>>
    /\ extract_calls = <<>>
    /\ extracted_data = <<>>
    /\ llm_consensus = NoConsensus
    /\ history = <<>>

\* standard_name arguments: the keys of the table, a short name, no standard
StandardNames == (DOMAIN ISO_LEAD_TIMES) \cup {"ISO 9001", "Unlisted standard"}

\* activity_type arguments: the keys of the table and an unlisted activity
ActivityTypes == (DOMAIN ISO_ACTIVITY_ADJUSTMENTS) \cup {"Unlisted activity"}

\* category_name arguments: the keys of the table and an unlisted category
CategoryNames == (DOMAIN INDIA_COMPLIANCE_LEAD_TIMES) \cup {"Unlisted category"}

\* start_date arguments as ordinals; 0 stands for None
StartDates == {0, Ordinal(2025, 1, 1), Ordinal(2024, 2, 29), Ordinal(2025, 12, 15)}

MappingCalls ==
    [fn : {"get_iso_due_date"}, name : StandardNames, activity_type : ActivityTypes,
     start_date : StartDates, state : {"called"}, start : {0}, due : {0}]
    \cup
    [fn : {"get_india_due_date"}, name : CategoryNames, activity_type : {""},
     start_date : StartDates, state : {"called"}, start : {0}, due : {0}]

InitMappings ==
    /\ ManagerIdle
    /\ mapping \in MappingCalls
    /\ truncation = NoTruncation
    /\ BatchIdle

\* `if start_date is None: start_date = datetime.now()`
StartOf(today) == IF mapping.start_date = 0 THEN today ELSE mapping.start_date

\* the function returns the date computed from start, or the addition raises
Finish(start, out) ==
    mapping' = [mapping EXCEPT !.state = IF out.ok THEN "returned" ELSE "raised",
                               !.start = start,
                               !.due = out.date]

GetIsoDueDateCall ==
    /\ mapping.fn = "get_iso_due_date"
    /\ mapping.state = "called"
    /\ \E today \in NowDays :
          Finish(StartOf(today),
                 GetIsoDueDate(mapping.name, mapping.activity_type, StartOf(today)))
    /\ UNCHANGED <<manager_vars, truncation, batch_vars>>

GetIndiaDueDateCall ==
    /\ mapping.fn = "get_india_due_date"
    /\ mapping.state = "called"
    /\ \E today \in NowDays :
          Finish(StartOf(today), GetIndiaDueDate(mapping.name, StartOf(today)))
    /\ UNCHANGED <<manager_vars, truncation, batch_vars>>

NextMappings == GetIsoDueDateCall \/ GetIndiaDueDateCall

SpecMappings == InitMappings /\ [][NextMappings]_vars

-----------------------------------------------------------------------------
(* utils.helpers.truncate_text                                             *)

\* text arguments
Texts ==
    {"", "a", "ab", "abc", "abcd", "abcde", "abcdef", "abcdefgh",
     "ISO 9001", "Fire Safety NOC", "Bureau of Indian Standards (BIS)"}

\* s[:k] of Python: a negative k counts from the end of s
SliceTo(s, k) ==
    LET stop == IF k >= 0 THEN (IF k > Len(s) THEN Len(s) ELSE k)
                ELSE (IF Len(s) + k < 0 THEN 0 ELSE Len(s) + k)
    IN  SubSeq(s, 1, stop)

\* truncate_text on a str argument
TruncateText(text, max_length) ==
    IF text = "" THEN ""
    ELSE IF Len(text) <= max_length THEN text
    ELSE SliceTo(text, max_length - 3) \o "..."

InitTruncate ==
    /\ ManagerIdle
    /\ BatchIdle
    /\ mapping = NoMapping
    /\ truncation \in [text : Texts, max_length : 0..MaxLength, state : {"called"},
                        out : {""}]

TruncateTextCall ==
    /\ truncation.state = "called"
    /\ truncation' = [truncation EXCEPT
                         !.state = "returned",
                         !.out = TruncateText(truncation.text, truncation.max_length)]
    /\ UNCHANGED <<manager_vars, mapping, batch_vars>>

NextTruncate == TruncateTextCall

SpecTruncate == InitTruncate /\ [][NextTruncate]_vars

-----------------------------------------------------------------------------
(* utils.excel_utils and the batch workflow of main                        *)

Item(title, description) == [Title |-> title, Description |-> description]

\* rows of new_submissions.xlsx: two with one Title, and two whose Title and
\* Description differ but concatenate to the same text
BatchItems ==
    {Item("GST Compliance", "Monthly filing"),
     Item("GST Compliance", "Annual return"),
     Item("ISO 9001", " audit"),
     Item("ISO 9001 ", "audit")}

\* hashlib.md5(f"{item['Title']}{item['Description']}".encode()).hexdigest():
\* the digest stands for the text it is computed from
ItemHash(it) == it.Title \o it.Description

\* the 'Item Hash' cell of a row; absent is the NaN of a row written before
\* the column existed
HashCell(digest) == [present |-> TRUE, digest |-> digest]

NoHashCell == [present |-> FALSE, digest |-> ""]

Row(it, cell) == [Title |-> it.Title, Description |-> it.Description, Item_Hash |-> cell]

\* check_duplicate that hashes the Title alone
CheckDuplicateTitleHash(it, m) ==
    IF ~m.exists THEN FALSE
    ELSE IF m.has_hash
    THEN \E i \in 1..Len(m.rows) : m.rows[i].Item_Hash = HashCell(it.Title)
    ELSE \E i \in 1..Len(m.rows) : m.rows[i].Title = it.Title

\* check_duplicate
CheckDuplicate(it, m) ==
    IF ~m.exists THEN FALSE
    ELSE IF m.has_hash
    THEN \E i \in 1..Len(m.rows) : m.rows[i].Item_Hash = HashCell(ItemHash(it))
    ELSE \E i \in 1..Len(m.rows) : m.rows[i].Title = it.Title

\* save_to_master: the master file with the new row appended
SaveToMaster(it, m) ==
    [exists |-> TRUE, has_hash |-> TRUE,
     rows |-> Append(m.rows, Row(it, HashCell(ItemHash(it))))]

\* a master list kept before the 'Item Hash' column was introduced
LegacyMaster ==
    [exists |-> TRUE, has_hash |-> FALSE,
     rows |-> <<Row(Item("GST Compliance", "Monthly filing"), NoHashCell)>>]

\* master files left by up to n rounds of check_duplicate finding nothing and
\* save_to_master
RECURSIVE CheckedMastersUpTo(_)
CheckedMastersUpTo(n) ==
    IF n = 0 THEN {NoMasterFile, LegacyMaster}
    ELSE LET before == CheckedMastersUpTo(n - 1)
             pairs == {pr \in before \X BatchItems : ~CheckDuplicate(pr[2], pr[1])}
         IN  before \cup {SaveToMaster(pr[2], pr[1]) : pr \in pairs}

\* extract_prerequisites returns a dict on both of its paths
PrerequisitesType == "dict"

\* save_to_text_file: `prerequisites + "\n"` raises TypeError unless
\* prerequisites is a str
SaveToTextFileRaises(prerequisitesType) == prerequisitesType # "str"

InitBatch ==
    /\ ManagerIdle
    /\ LibraryIdle
    /\ main_pc = "start"
    /\ new_items \in SeqsUpTo(BatchItems, MaxItems)
    /\ idx = 0
    /\ processed_count = 0
    /\ skipped_count = 0
    /\ error_count = 0
    /\ master \in CheckedMastersUpTo(MaxSaved)
    /\ dispositions = <<>>

\* main up to the loop: `if not new_items: return`
ReadNewItems ==
    /\ main_pc = "start"
    /\ main_pc' = IF new_items = <<>> THEN "returned" ELSE "loop"
    /\ idx' = 1
    /\ UNCHANGED <<manager_vars, library_vars, new_items, processed_count,
                   skipped_count, error_count, master, dispositions>>

\* a row of the master list written by save_to_master for this Title and
\* Description
SavedBefore(it, m) ==
    \E i \in 1..Len(m.rows) :
        /\ m.rows[i].Item_Hash.present
        /\ m.rows[i].Title = it.Title
        /\ m.rows[i].Description = it.Description

Disposition(o, it) == [outcome |-> o, was_saved |-> SavedBefore(it, master)]

\* one iteration of the loop of main; found tells whether
\* search_prerequisites returned any result
LoopBody ==
    /\ main_pc = "loop"
    /\ idx <= Len(new_items)
    /\ LET it == new_items[idx]
       IN  IF CheckDuplicate(it, master)
           THEN /\ skipped_count' = skipped_count + 1
                /\ dispositions' = Append(dispositions, Disposition("skipped", it))
                /\ UNCHANGED <<processed_count, error_count, master>>
           ELSE \E found \in BOOLEAN :
                  IF ~found
                  THEN /\ dispositions' = Append(dispositions, Disposition("continue", it))
                       /\ UNCHANGED <<processed_count, skipped_count, error_count,
                                      master>>
                  ELSE IF SaveToTextFileRaises(PrerequisitesType)
                  THEN /\ error_count' = error_count + 1
                       /\ dispositions' = Append(dispositions, Disposition("error", it))
                       /\ UNCHANGED <<processed_count, skipped_count, master>>
                  ELSE /\ master' = SaveToMaster(it, master)
                       /\ processed_count' = processed_count + 1
                       /\ dispositions' = Append(dispositions,
                                                 Disposition("processed", it))
                       /\ UNCHANGED <<skipped_count, error_count>>
    /\ idx' = idx + 1
    /\ main_pc' = IF idx = Len(new_items) THEN "summary" ELSE "loop"
    /\ UNCHANGED <<manager_vars, library_vars, new_items>>

\* the final summary of main
Summary ==
    /\ main_pc = "summary"
    /\ main_pc' = "completed"
    /\ UNCHANGED <<manager_vars, library_vars, new_items, idx, processed_count,
                   skipped_count, error_count, master, dispositions>>

NextBatch == ReadNewItems \/ LoopBody \/ Summary

SpecBatch == InitBatch /\ [][NextBatch]_vars

-----------------------------------------------------------------------------
(* Properties                                                              *)

Attempted(n) == \E i \in 1..Len(attempts) : attempts[i] = n

OutcomeOf(n) == outcomes[CHOOSE i \in 1..Len(attempts) : attempts[i] = n]

TitleIs(s) == item.title.kind = "str" /\ item.title.val = s

InputDate == Ordinal(item.appdate.y, item.appdate.m, item.appdate.d)

\* C1: every call of calculate_due_date returns a DueDateResult and never
\* raises to the caller, whatever the item and the search results are
C1_NeverRaises == pc # "raised"

\* C2: with a valid Application Date the due_date of the returned result
\* is at or after the Application Date
C2_DueNotBeforeApplication ==
    (pc = "done" /\ ValidApplicationDate(item.appdate)) => result.due_date >= InputDate

C2_Witness ==
    /\ pc = "done"
    /\ ValidApplicationDate(item.appdate)
    /\ result.method = "LLM_EXTRACTION"
    /\ result.due_date > InputDate

\* C3: strategies are attempted in the order 1..5, each at most once, a
\* strategy only after every earlier one declined (or, for strategy 2, was
\* skipped for want of search results), and the extractor is never invoked
\* in a call whose Regulatory Database result was accepted
C3_StrategyOrder ==
    /\ \A i, j \in 1..Len(attempts) : i < j => attempts[i] < attempts[j]
    /\ \A i \in 1..Len(attempts) :
          /\ attempts[i] \in 1..5
          /\ \A k \in 1..(attempts[i] - 1) :
                \/ Attempted(k) /\ OutcomeOf(k) \in {"raise", "none", "below"}
                \/ k = 2 /\ ~Attempted(2) /\ ~Truthy(search_results)
    /\ (Attempted(1) /\ OutcomeOf(1) = "returned") =>
          (extract_calls = <<>> /\ attempts = <<1>>)

C3_Witness ==
    /\ pc = "done"
    /\ attempts = <<1, 2, 3, 4, 5>>
    /\ extract_calls # <<>>

\* C4: a Title from which "ISO 9001" is extracted, which the Regulatory
\* Database holds with confidence 0.99, gives method REGULATORY_DATABASE,
\* the entry's confidence and Application Date + the entry's lead time,
\* whatever the sources are
C4_RegulatoryHit ==
    (/\ pc \notin {"idle", "s1"}
     /\ item.title.kind = "str"
     /\ ParseCertificationInfo(item).standard = "ISO 9001"
     /\ RegulatoryDb["ISO_9001"].confidence >= 950)
    => /\ pc = "done"
       /\ result.method = "REGULATORY_DATABASE"
       /\ result.confidence = RegulatoryDb["ISO_9001"].confidence
       /\ result.due_date = application_date + RegulatoryDb["ISO_9001"].lead_time_days

C4_Witness ==
    /\ pc = "done"
    /\ TitleIs("Renewal of ISO9001 certificate")
    /\ Truthy(search_results)
    /\ result.method = "REGULATORY_DATABASE"

\* C5 as stated: Application Date 2025-01-01 and a title containing
\* "ISO 9001" give due_date 2027-12-31, REGULATORY_DATABASE, 0.99
C5_Original ==
    (/\ pc = "done"
     /\ item.appdate = DateInput("datetime", 2025, 1, 1)
     /\ item.title.kind = "str"
     /\ Contains(item.title.val, "ISO 9001"))
    => /\ result.due_date = Ordinal(2027, 12, 31)
       /\ result.method = "REGULATORY_DATABASE"
       /\ result.confidence = 990

\* C5 amended: Application Date 2025-01-01 and a title containing
\* "ISO 9001" give due_date 2028-01-01 (1095 days later),
\* REGULATORY_DATABASE, 0.99
C5_Amended ==
    (/\ pc = "done"
     /\ item.appdate = DateInput("datetime", 2025, 1, 1)
     /\ item.title.kind = "str"
     /\ Contains(item.title.val, "ISO 9001"))
    => /\ result.due_date = Ordinal(2028, 1, 1)
       /\ result.method = "REGULATORY_DATABASE"
       /\ result.confidence = 990

C5_Witness ==
    /\ pc = "done"
    /\ item.appdate = DateInput("datetime", 2025, 1, 1)
    /\ TitleIs("ISO 9001 - Quality Management")
    /\ result.due_date = Ordinal(2025, 1, 1) + 1095

\* the consensus strategy 2 computes over the claims it extracted: none
\* when there are no sources, no official document, an aborted loop or no claim
ConsensusReached ==
    /\ Truthy(search_results)
    /\ LET official == FilterOfficialSources(search_results.docs)
       IN  /\ Len(official) > 0
           /\ LET loop == ExtractLoop(official, 1, llm, <<>>, <<>>)
              IN  ~loop.raised /\ Len(loop.data) > 0

ConsensusValue ==
    FindConsensus(ExtractLoop(FilterOfficialSources(search_results.docs),
                              1, llm, <<>>, <<>>).data)

\* the Regulatory Database was consulted and had no entry
RegulatoryMiss == Attempted(1) /\ OutcomeOf(1) = "none"

\* C6 as stated: a Regulatory Database miss and a consensus of confidence
\* >= 0.80 over the claims of the official documents give LLM_EXTRACTION,
\* the consensus label and Application Date + the label's offset
C6_Original ==
    (/\ pc \notin {"idle", "s1", "s2"}
     /\ RegulatoryMiss
     /\ ConsensusReached
     /\ ConsensusValue.confidence >= 800)
    => /\ pc = "done"
       /\ result.method = "LLM_EXTRACTION"
       /\ result.validity_period = ConsensusValue.validity_period
       /\ result.due_date = application_date + PeriodDays(ConsensusValue.validity_period.val)

\* C6 amended: the same, provided the consensus label converts to a
\* date: it is text and Application Date + its offset is not past
\* 9999-12-31; otherwise the strategy declines
C6_Amended ==
    (/\ pc \notin {"idle", "s1", "s2"}
     /\ RegulatoryMiss
     /\ ConsensusReached
     /\ ConsensusValue.confidence >= 800)
    => IF /\ ConsensusValue.validity_period.isStr
          /\ application_date + PeriodDays(ConsensusValue.validity_period.val) <= MaxOrdinal
       THEN /\ pc = "done"
            /\ result.method = "LLM_EXTRACTION"
            /\ result.validity_period = ConsensusValue.validity_period
            /\ result.due_date =
                   application_date + PeriodDays(ConsensusValue.validity_period.val)
       ELSE result.method # "LLM_EXTRACTION" /\ OutcomeOf(2) = "raise"

C6_Witness ==
    /\ pc = "done"
    /\ RegulatoryMiss
    /\ result.method = "LLM_EXTRACTION"
    /\ result.validity_period = Str("3 Years")
    /\ result.due_date = application_date + 1095
    /\ Len(result.source_urls) = 2

KnownStaticCategory ==
    /\ item.title.kind = "str"
    /\ item.title.val \in (DOMAIN ISO_LEAD_TIMES) \cup (DOMAIN INDIA_COMPLIANCE_LEAD_TIMES)

\* C7: when the Regulatory Database misses, no source yields a claim and
\* the Title is in neither static table, the result is CONSERVATIVE_DEFAULT
\* with confidence 0.4, "1 Year (Default)" and Application Date + 365 days
C7_NoSignalGivesDefault ==
    (/\ pc = "done"
     /\ item.title.kind = "str"
     /\ RegulatoryMiss
     /\ ~Attempted(2) \/ OutcomeOf(2) = "none"
     /\ ~KnownStaticCategory)
    => /\ result.method = "CONSERVATIVE_DEFAULT"
       /\ result.confidence = 400
       /\ result.validity_period = Str("1 Year (Default)")
       /\ result.due_date = application_date + 365

\* C8: a STATIC_MAPPING result for a Title that is a key of ISO_LEAD_TIMES
\* is Application Date + that key's own base lead time + the adjustment
\* for New Certification
C8_IsoKeyOwnLeadTime ==
    (/\ pc = "done"
     /\ result.method = "STATIC_MAPPING"
     /\ item.title.kind = "str"
     /\ item.title.val \in DOMAIN ISO_LEAD_TIMES)
    => result.due_date = application_date + ISO_LEAD_TIMES[item.title.val]
                             + ISO_ACTIVITY_ADJUSTMENTS["New Certification"]

\* C9: once strategies 1-3 have declined or failed on a Title that is a
\* known static-mapping category, the call returns STATIC_MAPPING with
\* confidence 0.6, with no threshold standing in the way
C9_StaticMappingAccepted ==
    (KnownStaticCategory /\ Attempted(4))
    => /\ pc = "done"
       /\ result.method = "STATIC_MAPPING"
       /\ result.confidence = 600

C9_Witness ==
    /\ pc = "done"
    /\ KnownStaticCategory
    /\ attempts = <<1, 2, 3, 4>>
    /\ outcomes = <<"none", "below", "none", "returned">>
    /\ result.method = "STATIC_MAPPING"

\* C10: a Title that is a key of INDIA_COMPLIANCE_LEAD_TIMES, with no
\* sources, falls through to STATIC_MAPPING with confidence 0.6 and
\* Application Date + that key's lead time
C10_IndiaCategory ==
    (/\ pc \notin {"idle", "s1", "s2", "s3", "s4"}
     /\ item.title.kind = "str"
     /\ item.title.val \in DOMAIN INDIA_COMPLIANCE_LEAD_TIMES
     /\ ~Truthy(search_results))
    => /\ pc = "done"
       /\ attempts = <<1, 3, 4>>
       /\ result.method = "STATIC_MAPPING"
       /\ result.confidence = 600
       /\ result.due_date =
              application_date + INDIA_COMPLIANCE_LEAD_TIMES[item.title.val]

C10_Witness ==
    /\ pc = "done"
    /\ TitleIs("GST Compliance")
    /\ search_results = [isNone |-> FALSE, docs |-> <<>>]
    /\ result.method = "STATIC_MAPPING"
    /\ result.due_date = application_date + 30

\* the labels of the claims strategy 2 collected, in order
ExtractedPeriods == [i \in 1..Len(extracted_data) |-> extracted_data[i].validity_period]

Occurrences(p) == Cardinality({i \in 1..Len(extracted_data) : ExtractedPeriods[i] = p})

FirstIndexOf(p) ==
    CHOOSE i \in 1..Len(extracted_data) :
        ExtractedPeriods[i] = p /\ \A j \in 1..(i - 1) : ExtractedPeriods[j] # p

\* C11: the consensus over a non-empty list of claims is the most frequent
\* label, the first in the list among equally frequent ones, with
\* confidence (its occurrences / number of claims) x 0.9; the claims
\* ["3 Years", "3 Years", "Annual"] give "3 Years" with 0.6; with no claim
\* the strategy yields no result
C11_Consensus ==
    /\ llm_consensus.present =>
          LET w == llm_consensus.validity_period
          IN  /\ Len(extracted_data) > 0
              /\ Occurrences(w) > 0
              /\ \A j \in 1..Len(extracted_data) :
                    /\ Occurrences(ExtractedPeriods[j]) <= Occurrences(w)
                    /\ Occurrences(ExtractedPeriods[j]) = Occurrences(w)
                          => FirstIndexOf(w) <= j
              /\ llm_consensus.confidence * Len(extracted_data) = Occurrences(w) * 900
    /\ ExtractedPeriods = <<Str("3 Years"), Str("3 Years"), Str("Annual")>> =>
          /\ llm_consensus.present
          /\ llm_consensus.validity_period = Str("3 Years")
          /\ llm_consensus.confidence = 600
    /\ (Attempted(2) /\ extracted_data = <<>>) =>
          /\ ~llm_consensus.present
          /\ OutcomeOf(2) \in {"none", "raise"}

C11_Witness ==
    /\ pc = "done"
    /\ ExtractedPeriods = <<Str("3 Years"), Str("3 Years"), Str("Annual")>>
    /\ llm_consensus.validity_period = Str("3 Years")
    /\ llm_consensus.confidence = 600
    /\ OutcomeOf(2) = "below"

\* what strategies n..5 produce for the item and sources of the call when
\* every strategy before n is taken to have declined
FromConservativeDefault == ConservativeDefaultResult(item, application_date)

FromStaticMapping ==
    LET out == TryStaticMapping(item, application_date)
    IN  IF out.status = "ok" THEN out ELSE FromConservativeDefault

FromHistoricalAnalysis ==
    LET out == TryHistoricalAnalysis(item, application_date)
    IN  IF out.status = "ok" /\ out.res.confidence >= 700 THEN out ELSE FromStaticMapping

FromLlmExtraction ==
    IF Truthy(search_results)
    THEN LET out == TryLlmExtraction(item, application_date, search_results.docs, llm)
         IN  IF out.status = "ok" /\ out.res.confidence >= 800
             THEN out ELSE FromHistoricalAnalysis
    ELSE FromHistoricalAnalysis

RemainingFrom(n) ==
    CASE n = 2 -> FromLlmExtraction
      [] n = 3 -> FromHistoricalAnalysis
      [] n = 4 -> FromStaticMapping
      [] OTHER -> FromConservativeDefault

\* C12: when the attempt of one of strategies 1-4 raises, nothing reaches
\* the caller and the call returns exactly what the lower-priority
\* strategies produce for the same item
C12_FailureIsDecline ==
    \A i \in 1..Len(attempts) :
        (outcomes[i] = "raise" /\ attempts[i] \in 1..4) =>
            /\ pc # "raised"
            /\ pc = "done" =>
                  /\ RemainingFrom(attempts[i] + 1).status = "ok"
                  /\ result = RemainingFrom(attempts[i] + 1).res

C12_Witness ==
    /\ pc = "done"
    /\ attempts = <<1, 2, 3, 4>>
    /\ outcomes = <<"none", "raise", "none", "returned">>
    /\ extracted_data # <<>>
    /\ result.method = "STATIC_MAPPING"

\* the documents strategy 2 extracts from: the first three that pass the filter
QualifyingDocs ==
    LET official == FilterOfficialSources(search_results.docs)
    IN  SubSeq(official, 1, IF Len(official) < 3 THEN Len(official) ELSE 3)

\* a document from which a claim can be extracted
YieldsClaim(doc) == doc.hasContent /\ llm /\ doc.answer.claim

\* the claims of the qualifying documents from which one can be extracted
ClaimsOfQualifying ==
    LET yielding == SelectSeq(QualifyingDocs, YieldsClaim)
    IN  [i \in 1..Len(yielding) |->
            [claim |-> TRUE, validity_period |-> yielding[i].answer.vp,
             source_url |-> yielding[i].url]]

\* C13: a qualifying document whose extraction fails (extractor error,
\* missing or unusable content) contributes no claim, and the claims of the
\* other qualifying documents are still collected and passed to consensus
C13_PerDocumentIsolation ==
    Attempted(2) =>
        /\ extracted_data = ClaimsOfQualifying
        /\ ClaimsOfQualifying # <<>> => llm_consensus.present

\* index of the first character after the "://" of a URL, 1 without a scheme
HostStart(url) ==
    IF Contains(url, "://")
    THEN 3 + CHOOSE i \in 1..Len(url) :
                 /\ SubSeq(url, i, i + 2) = "://"
                 /\ \A j \in 1..(i - 1) : SubSeq(url, j, j + 2) # "://"
    ELSE 1

\* the host name of a URL in lower case: what lies between the scheme and the
\* first of / ? # :
HostOf(url) ==
    LET from == HostStart(url)
        stops == {i \in from..Len(url) : CharAt(url, i) \in {"/", "?", "#", ":"}}
        to == IF stops = {} THEN Len(url)
              ELSE (CHOOSE i \in stops : \A j \in stops : i <= j) - 1
    IN  Lower(SubSeq(url, from, to))

EndsWith(s, suffix) ==
    /\ Len(s) >= Len(suffix)
    /\ SubSeq(s, Len(s) - Len(suffix) + 1, Len(s)) = suffix

\* the domain of the URL ends with an allow-listed suffix
OfficialHost(url) ==
    \E k \in 1..Len(OfficialDomains) : EndsWith(HostOf(url), OfficialDomains[k])

OfficialHostVerdicts == [u \in SearchUrls |-> OfficialHost(u)]

HasOfficialHost(doc) ==
    IF doc.url \in SearchUrls THEN OfficialHostVerdicts[doc.url] ELSE OfficialHost(doc.url)

\* C16: a document reaches the text extractor only if the domain of its URL
\* ends with an allow-listed suffix; a URL that contains such a string
\* elsewhere is filtered out
C16_OnlyOfficialHostsExtracted ==
    \A i \in 1..Len(extract_calls) :
        IF extract_calls[i] \in SearchUrls
        THEN OfficialHostVerdicts[extract_calls[i]]
        ELSE OfficialHost(extract_calls[i])

\* C14: without search results, or with none from an official domain, the
\* text extractor is never invoked and the method is never LLM_EXTRACTION
C14_ShortCircuit ==
    (\/ ~Truthy(search_results)
     \/ SelectSeq(search_results.docs, HasOfficialHost) = <<>>) =>
        /\ extract_calls = <<>>
        /\ result.method # "LLM_EXTRACTION"

\* URLs of the first three documents of an official domain, in order
FirstOfficialUrls ==
    LET official == IF search_results.isNone THEN <<>>
                    ELSE SelectSeq(search_results.docs, HasOfficialHost)
        n == IF Len(official) < 3 THEN Len(official) ELSE 3
    IN  [i \in 1..n |-> official[i].url]

\* C15: the text extractor is invoked at most three times, once per document,
\* only on the first three official-domain documents and in their order
C15_FirstThreeOfficialOnly ==
    /\ Len(extract_calls) <= 3
    /\ Len(extract_calls) <= Len(FirstOfficialUrls)
    /\ extract_calls = SubSeq(FirstOfficialUrls, 1, Len(extract_calls))

\* the label strategy 2 converts
ConsensusLabel == llm_consensus.validity_period.val

\* the first integer written in the label, 1 when it holds no digit
LabelInteger(label) ==
    LET digits == {i \in 1..Len(label) : CharAt(label, i) \in Digits}
    IN  IF digits = {} THEN 1
        ELSE LET first == CHOOSE i \in digits : \A j \in digits : i <= j
             IN  IntOf(SubSeq(label, first, RunEnd(label, first, Digits)))

\* "year" in the label, whatever the case of its letters
MentionsYear(label) ==
    \E i \in 1..(Len(label) - 3) : Lower(SubSeq(label, i, i + 3)) = "year"

LabelOffset(label) ==
    IF MentionsYear(label) THEN LabelInteger(label) * 365 ELSE LabelInteger(label) * 30

\* C17: the due date of strategy 2 is the start date plus N x 365 days when
\* the label contains "year" in any case and N x 30 days otherwise, N being
\* the first integer of the label or 1 without one; "3 Years" gives 1095
\* days, "6 months" 180 and "Annual" 30
C17_PeriodOffset ==
    /\ (Attempted(2) /\ llm_consensus.present /\ llm_consensus.validity_period.isStr
          /\ application_date + LabelOffset(ConsensusLabel) <= MaxOrdinal) =>
            /\ CalculateFromValidityPeriod(application_date, llm_consensus.validity_period)
                 = [ok |-> TRUE, date |-> application_date + LabelOffset(ConsensusLabel)]
            /\ llm_consensus.confidence >= 800 =>
                  /\ pc = "done"
                  /\ result.method = "LLM_EXTRACTION"
                  /\ result.due_date = application_date + LabelOffset(ConsensusLabel)
    /\ result.method = "LLM_EXTRACTION" =>
          /\ result.validity_period = Str("3 Years") =>
                result.due_date = application_date + 1095
          /\ result.validity_period = Str("6 months") =>
                result.due_date = application_date + 180
          /\ result.validity_period = Str("Annual") =>
                result.due_date = application_date + 30

C17_Witness ==
    /\ pc = "done"
    /\ result.method = "LLM_EXTRACTION"
    /\ result.validity_period = Str("valid for 2 years")
    /\ result.due_date = application_date + 730

\* a STATIC_MAPPING result for a Title that is in neither static table
UnknownCategoryResolved ==
    /\ pc = "done"
    /\ result.method = "STATIC_MAPPING"
    /\ item.title.kind = "str"
    /\ ~KnownStaticCategory

\* C18 as stated: for a Title in neither static table that strategies 1-3
\* do not resolve, the Static Mapping due_date is Application Date + 30 days
C18_Original ==
    UnknownCategoryResolved => result.due_date = application_date + 30

\* C18 amended: for a Title in neither static table that strategies 1-3 do
\* not resolve, the Static Mapping due_date is Application Date + 30 days
\* when the Title does not contain "ISO", and Application Date + 30 + 30
\* days (default lead time plus the New Certification adjustment) when it does
C18_Amended ==
    UnknownCategoryResolved =>
        /\ result.confidence = 600
        /\ result.due_date = application_date
                               + (IF Contains(item.title.val, "ISO") THEN 60 ELSE 30)

C18_Witness ==
    /\ UnknownCategoryResolved
    /\ TitleIs("ISO Audit Support")
    /\ attempts = <<1, 2, 3, 4>>
    /\ result.due_date = application_date + 60

\* C20: the Historical Analyzer reports confidence 0.0 for empty history, so
\* in every call the Historical Analysis strategy declines and no returned
\* result has method HISTORICAL_ANALYSIS
C20_HistoricalNeverWins ==
    /\ AnalyzeProcessingTimes(<<>>).confidence = 0
    /\ Attempted(3) => OutcomeOf(3) = "none"
    /\ result.method # "HISTORICAL_ANALYSIS"

C20_Witness ==
    /\ pc = "done"
    /\ Attempted(3)
    /\ OutcomeOf(3) = "none"
    /\ result.method = "STATIC_MAPPING"

\* the two calls had identical item and sources
SameArguments(c, it, sr) == c.item = it /\ c.search_results = sr

\* C19: two calls on the same manager with identical item and sources return
\* equal results, whatever calls were made in between
C19_Idempotent ==
    /\ \A i, j \in 1..Len(history) :
          SameArguments(history[i], history[j].item, history[j].search_results) =>
              history[i].returned = history[j].returned
    /\ pc \in {"done", "raised"} =>
          \A i \in 1..Len(history) :
              SameArguments(history[i], item, search_results) =>
                  history[i].returned = Returned

\* the method each strategy writes into its result
MethodOfStrategy ==
    <<"REGULATORY_DATABASE", "LLM_EXTRACTION", "HISTORICAL_ANALYSIS",
      "STATIC_MAPPING", "CONSERVATIVE_DEFAULT">>

\* what strategy n produces for the item and sources of the call
ProducedBy(n) ==
    CASE n = 1 -> TryRegulatoryDatabase(item, application_date)
      [] n = 2 -> TryLlmExtraction(item, application_date, search_results.docs, llm)
      [] n = 3 -> TryHistoricalAnalysis(item, application_date)
      [] n = 4 -> TryStaticMapping(item, application_date)
      [] OTHER -> ConservativeDefaultResult(item, application_date)

\* C21: the method of a returned result names the strategy that produced it,
\* the confidence meets that strategy's threshold (>= 0.95, >= 0.80, >= 0.70,
\* = 0.6, = 0.4 in the order of the strategies), and a result rejected for
\* sub-threshold confidence is not the one returned
C21_MethodAndThreshold ==
    pc = "done" =>
        LET last == Len(attempts)
            n == attempts[last]
        IN  /\ outcomes[last] = "returned"
            /\ \A i \in 1..(last - 1) : outcomes[i] # "returned"
            /\ result.method = MethodOfStrategy[n]
            /\ ProducedBy(n).status = "ok"
            /\ result = ProducedBy(n).res
            /\ result.method = "REGULATORY_DATABASE" => result.confidence >= 950
            /\ result.method = "LLM_EXTRACTION" => result.confidence >= 800
            /\ result.method = "HISTORICAL_ANALYSIS" => result.confidence >= 700
            /\ result.method = "STATIC_MAPPING" => result.confidence = 600
            /\ result.method = "CONSERVATIVE_DEFAULT" => result.confidence = 400
            /\ \A i \in 1..last :
                  outcomes[i] = "below" => result.method # MethodOfStrategy[attempts[i]]

\* a sub-threshold consensus was rejected and Static Mapping answered
C21_Witness ==
    /\ pc = "done"
    /\ Attempted(2)
    /\ OutcomeOf(2) = "below"
    /\ llm_consensus.confidence = 600
    /\ result.method = "STATIC_MAPPING"
    /\ result.confidence = 600

\* C22: the confidence of every returned result lies in [0,1], whatever the
\* inputs and whatever claims were extracted
C22_ConfidenceInUnitInterval ==
    /\ pc = "done" => (result.confidence >= 0 /\ result.confidence <= 1000)
    /\ llm_consensus.present =>
          (llm_consensus.confidence >= 0 /\ llm_consensus.confidence <= 1000)

C22_Witness ==
    /\ pc = "done"
    /\ result.method = "LLM_EXTRACTION"
    /\ Len(extracted_data) = 3
    /\ result.confidence = 900

MappingReturned(fn) == mapping.fn = fn /\ mapping.state = "returned"

\* C23: get_iso_due_date returns start + (ISO_LEAD_TIMES[standard] +
\* ISO_ACTIVITY_ADJUSTMENTS[activity]) days for every standard and activity
\* of the tables (ISO 9001 New Certification 120 days, ISO 27001
\* Surveillance Audit 90 days) and get_india_due_date returns start +
\* INDIA_COMPLIANCE_LEAD_TIMES[category] days for every category of the
\* table (BIS 180 days, GST 30 days)
C23_TableLeadTimes ==
    /\ (/\ mapping.fn = "get_iso_due_date"
        /\ mapping.state # "called"
        /\ mapping.name \in DOMAIN ISO_LEAD_TIMES
        /\ mapping.activity_type \in DOMAIN ISO_ACTIVITY_ADJUSTMENTS) =>
          /\ mapping.state = "returned"
          /\ mapping.due = mapping.start + ISO_LEAD_TIMES[mapping.name]
                             + ISO_ACTIVITY_ADJUSTMENTS[mapping.activity_type]
          /\ (/\ mapping.name = "ISO 9001 - Quality Management"
              /\ mapping.activity_type = "New Certification") =>
                mapping.due = mapping.start + 120
          /\ (/\ mapping.name = "ISO 27001 - Information Security Management"
              /\ mapping.activity_type = "Surveillance Audit") =>
                mapping.due = mapping.start + 90
    /\ (/\ mapping.fn = "get_india_due_date"
        /\ mapping.state # "called"
        /\ mapping.name \in DOMAIN INDIA_COMPLIANCE_LEAD_TIMES) =>
          /\ mapping.state = "returned"
          /\ mapping.due = mapping.start + INDIA_COMPLIANCE_LEAD_TIMES[mapping.name]
          /\ mapping.name = "Bureau of Indian Standards (BIS)" =>
                mapping.due = mapping.start + 180
          /\ mapping.name = "GST Compliance" => mapping.due = mapping.start + 30

C23_Witness ==
    /\ MappingReturned("get_iso_due_date")
    /\ mapping.name = "ISO 27001 - Information Security Management"
    /\ mapping.activity_type = "Surveillance Audit"
    /\ mapping.start_date = Ordinal(2025, 1, 1)
    /\ mapping.due = Ordinal(2025, 4, 1)

\* C27: for every standard name, listed or not, and every activity type of
\* ISO_ACTIVITY_ADJUSTMENTS, get_iso_due_date returns a date at or after start
C27_IsoDueNotBeforeStart ==
    (/\ mapping.fn = "get_iso_due_date"
     /\ mapping.state # "called"
     /\ mapping.activity_type \in DOMAIN ISO_ACTIVITY_ADJUSTMENTS) =>
        /\ mapping.state = "returned"
        /\ mapping.due >= mapping.start

\* URLs of those of the first three official-domain documents that yield a
\* claim, in the order of search_results
ContributingUrls ==
    LET official == IF search_results.isNone THEN <<>>
                    ELSE SelectSeq(search_results.docs, HasOfficialHost)
        n == IF Len(official) < 3 THEN Len(official) ELSE 3
        yielding == SelectSeq(SubSeq(official, 1, n), YieldsClaim)
    IN  [i \in 1..Len(yielding) |-> yielding[i].url]

\* C24: source_urls of an LLM_EXTRACTION result is exactly the URLs of the
\* official documents that yielded a claim, in the order of search_results
\* and at most three; it is empty for STATIC_MAPPING, HISTORICAL_ANALYSIS
\* and CONSERVATIVE_DEFAULT results
C24_SourceUrls ==
    pc = "done" =>
        /\ result.method = "LLM_EXTRACTION" =>
              /\ result.source_urls = ContributingUrls
              /\ Len(result.source_urls) <= 3
        /\ result.method \in {"STATIC_MAPPING", "HISTORICAL_ANALYSIS",
                              "CONSERVATIVE_DEFAULT"} =>
              result.source_urls = <<>>

\* every extracted claim carries the same label
Unanimous ==
    \A i, j \in 1..Len(extracted_data) :
        extracted_data[i].validity_period = extracted_data[j].validity_period

\* C26: an LLM_EXTRACTION result is returned only when at least one claim
\* was extracted and all claims carry the identical label string; its
\* confidence is then exactly 0.9, below the Regulatory Database threshold
\* 0.95; with any disagreement among the claims strategy 2 yields no result
C26_WinsOnlyOnUnanimity ==
    /\ result.method = "LLM_EXTRACTION" =>
          /\ extracted_data # <<>>
          /\ Len(extracted_data) <= 3
          /\ Unanimous
          /\ extracted_data[1].validity_period.isStr
          /\ result.validity_period = extracted_data[1].validity_period
          /\ result.confidence = 900
          /\ result.confidence < 950
    /\ (Attempted(2) /\ ~Unanimous) =>
          /\ OutcomeOf(2) # "returned"
          /\ result.method # "LLM_EXTRACTION"

\* two of three claims agree and Static Mapping answers
C26_Witness ==
    /\ pc = "done"
    /\ Len(extracted_data) = 3
    /\ ~Unanimous
    /\ llm_consensus.present
    /\ llm_consensus.confidence = 600
    /\ OutcomeOf(2) # "returned"
    /\ result.method # "LLM_EXTRACTION"

\* C25: truncate_text returns at most max_length characters for every text
\* and every max_length >= 0: exactly max_length characters ending with
\* "..." when the text is longer than max_length, the text itself otherwise
C25_TruncateWithinMaxLength ==
    truncation.state = "returned" =>
        /\ Len(truncation.out) <= truncation.max_length
        /\ Len(truncation.text) > truncation.max_length =>
              /\ Len(truncation.out) = truncation.max_length
              /\ EndsWith(truncation.out, "...")
        /\ Len(truncation.text) <= truncation.max_length =>
              truncation.out = truncation.text

C29_EveryItemCounted ==
    /\ main_pc \in {"summary", "completed"} =>
          /\ processed_count + skipped_count + error_count = Len(new_items)
          /\ Len(dispositions) = Len(new_items)
    /\ error_count = Cardinality({i \in 1..Len(dispositions) :
                                     dispositions[i].outcome = "error"})

\* rows of the master list that carry an Item Hash
HashedRows == {i \in 1..Len(master.rows) : master.rows[i].Item_Hash.present}

\* C30: once save_to_master has written an item, check_duplicate is True for
\* every item with the same Title and Description, so main skips an item
\* that is already in the master list, and no two rows of the master list
\* carry the same Item Hash
C30_DuplicateRoundTrip ==
    /\ \A it \in BatchItems : CheckDuplicate(it, SaveToMaster(it, master))
    /\ \A it \in BatchItems : SavedBefore(it, master) => CheckDuplicate(it, master)
    /\ \A i \in 1..Len(dispositions) :
          dispositions[i].was_saved => dispositions[i].outcome = "skipped"
    /\ \A i, j \in HashedRows :
          master.rows[i].Item_Hash = master.rows[j].Item_Hash => i = j

C30_Witness ==
    /\ main_pc = "completed"
    /\ Len(new_items) = 2
    /\ new_items[1] = new_items[2]
    /\ HashedRows # {}
    /\ skipped_count = 2
    /\ \A i \in 1..2 : dispositions[i] = [outcome |-> "skipped", was_saved |-> TRUE]

====
